---------------------------- MODULE Spec2Model ----------------------------
(***************************************************************************)
(* merge-log: merging of several experiment logs into per-key statistics.  *)
(*                                                                         *)
(* The module models the four merge strategies of src/merge_logs/formats.py*)
(* (merge_format0 .. merge_format3, get_nested) and the driver             *)
(* merge_formats of src/merge_logs/__main__.py, which selects a strategy   *)
(* by its integer id, runs it and writes the statistics as CSV rows.       *)
(*                                                                         *)
(* __main__.py holds its own copies of merge_format0/1/2, statement for    *)
(* statement those of formats.py except that they return the statistics    *)
(* alone, and a merge_format3 that is `pass`; merge_formats calls these,   *)
(* with the data as only argument.  The steps F0*, F1*, F2* below are the  *)
(* steps of both copies; the step of merge_formats that calls a strategy   *)
(* (MainDo) enters them, or returns None at once for format 3.             *)
(*                                                                         *)
(* A failure is named after the error of the design it stands for:         *)
(*   assert features is None            FeatureNotAllowedError             *)
(*   assert set(keys) == keys           KeyMismatchError                   *)
(*   assert len(keys) == len(...)       KeyCountMismatchError              *)
(*   assert len(samples) == n_stats     ColumnCountMismatchError           *)
(*   assert all(len(...) == n_steps)    StepCountMismatchError             *)
(*   KeyError/TypeError in _get_nested  PathNotFoundError                  *)
(*   raise ValueError (format id)       UnsupportedFormatError             *)
(* and by its Python name otherwise (IndexError, TypeError).               *)
(*                                                                         *)
(* Conventions                                                             *)
(*  - Python's Optional: None is <<>>, a present value x is <<x>>.         *)
(*  - A Python str that the code splits is a tuple of one-character        *)
(*    strings ("b,a" is <<"b", ",", "a">>), so that split(",") is computed.*)
(*  - A dict is a function; a list is a sequence.  Python's 0-based list   *)
(*    positions data[i] are the 1-based positions data[i + 1] here; the    *)
(*    integer keys the program itself produces (step numbers) stay 0-based.*)
(*  - numpy's floating-point results are kept exact: np.mean is a reduced  *)
(*    fraction <<num, den>>, np.std is a reduced surd <<a, b, c>> standing *)
(*    for a * sqrt(b) / c with b square-free; nan is 0/0.                  *)
(***************************************************************************)
EXTENDS Integers, Sequences, FiniteSets, TLC

VARIABLES
    entry,      \* "direct": a call of formats.merge_formatN; "main": a run of merge_formats
    format_id,  \* the strategy called, or the --format id given to merge_formats
    data,       \* the loaded input files, in in_paths order
    features,   \* the features argument of the strategy (Optional)
    pc,         \* position in the code
    err,        \* the failure raised, "" when none
    all_keys,   \* local all_keys of merge_format1/2: every file's sorted keys
    other_key,  \* the local keys resolved so far: [canonical key -> one key per file]
    n_stats,    \* local n_stats of merge_format2, -1 before it is set
    combined,   \* local combined / all_stats
    stats,      \* the statistics mapping built (and returned)
    header,     \* the header returned (Optional)
    ret,        \* "pending", "value" (a result was returned) or "none" (None was returned)
    out0,       \* the output file before the run: <<>> absent, <<rows>> present
    out         \* the output file now

vars == <<entry, format_id, data, features, pc, err, all_keys, other_key,
          n_stats, combined, stats, header, ret, out0, out>>

---------------------------------------------------------------------------
(* Bounds of the explored inputs.  A call has at least one input file: the  *)
(* command line requires one, and every strategy reads data[0].             *)

MaxFiles == 2      \* input files per call: 1..MaxFiles
MaxKey == 2        \* integer keys: 0..MaxKey
MaxSteps == 2      \* Format3 steps per file: 0..MaxSteps

\* Keys per file.
KeyCounts == {0, 1, 2}

\* The sample lists a Format0/Format1 key may hold: empty, one sample, two
\* different samples in descending order.
FlatSamples == {<<>>, <<1>>, <<3, 1>>}

\* The sample lists a Format2 key may hold: empty, one one-column row, two
\* two-column rows.
ColsSamples == {<<>>, << <<1>> >>, << <<3, 1>>, <<1, 2>> >>}

---------------------------------------------------------------------------
(* Python values *)

None == <<>>
Some(x) == <<x>>

Abs(x) == IF x < 0 THEN -x ELSE x

RECURSIVE SumSeq(_)
SumSeq(s) == IF s = <<>> THEN 0 ELSE Head(s) + SumSeq(Tail(s))

RECURSIVE GCD(_, _)
GCD(a, b) == IF b = 0 THEN a ELSE GCD(b, a % b)

\* The exact quotient n / d, d > 0, in lowest terms.
Frac(n, d) == LET g == GCD(Abs(n), d) IN <<n \div g, d \div g>>

NaN == <<0, 0>>
NaNStd == <<0, 0, 0>>

\* The largest a with a * a dividing m, m > 0, found by trial from a upwards.
RECURSIVE SquarePart(_, _, _)
SquarePart(m, a, best) ==
    IF a * a > m THEN best
    ELSE SquarePart(m, a + 1, IF m % (a * a) = 0 THEN a ELSE best)

\* The exact square root of p / q (p >= 0, q > 0) as a * sqrt(b) / c.
Sqrt(p, q) ==
    IF p = 0 THEN <<0, 1, 1>>
    ELSE LET r == Frac(p, q)
             m == r[1] * r[2]
             a == SquarePart(m, 1, 1)
             g == GCD(a, r[2])
         IN <<a \div g, m \div (a * a), r[2] \div g>>

\* mean with the sum divided as integers (sum // len).
mean_floordiv(x) == IF Len(x) = 0 THEN NaN ELSE <<SumSeq(x) \div Len(x), 1>>

\* np.mean of a list of numbers: the sum over the count; nan for an empty list.
mean(x) == IF Len(x) = 0 THEN NaN ELSE Frac(SumSeq(x), Len(x))

\* np.std of a list of numbers: sqrt(mean(abs(x - mean(x)) ** 2)).
RECURSIVE SumSqDev(_, _, _)
SumSqDev(x, n, s) ==
    IF x = <<>> THEN 0
    ELSE (Head(x) * n - s) * (Head(x) * n - s) + SumSqDev(Tail(x), n, s)

\* std as the sample deviation (ddof=1): the squares divided by N - 1.
std_ddof1(x) ==
    IF Len(x) <= 1 THEN NaNStd
    ELSE LET n == Len(x) IN Sqrt(SumSqDev(x, n, SumSeq(x)), n * n * (n - 1))

std(x) ==
    IF Len(x) = 0 THEN NaNStd
    ELSE LET n == Len(x) IN Sqrt(SumSqDev(x, n, SumSeq(x)), n * n * n)

\* sorted(d.keys()) for integer keys: ascending.
RECURSIVE sorted(_)
sorted(S) ==
    IF S = {} THEN <<>>
    ELSE LET m == CHOOSE x \in S : \A y \in S : x <= y
         IN <<m>> \o sorted(S \ {m})

\* min(file_keys, key=lambda k: abs(key - k)): the scan keeps the first of the
\* smallest, replacing its candidate only by a strictly nearer one.
\* The scan with <= for <: the last of the smallest wins.
RECURSIVE MinScanLast(_, _, _)
MinScanLast(file_keys, key, best) ==
    IF file_keys = <<>> THEN best
    ELSE MinScanLast(Tail(file_keys), key,
                     IF Abs(key - Head(file_keys)) <= Abs(key - best)
                     THEN Head(file_keys) ELSE best)

\* The scan with the signed difference key - k for abs(key - k).
RECURSIVE MinScanNoAbs(_, _, _)
MinScanNoAbs(file_keys, key, best) ==
    IF file_keys = <<>> THEN best
    ELSE MinScanNoAbs(Tail(file_keys), key,
                      IF key - Head(file_keys) < key - best
                      THEN Head(file_keys) ELSE best)

RECURSIVE MinScan(_, _, _)
MinScan(file_keys, key, best) ==
    IF file_keys = <<>> THEN best
    ELSE MinScan(Tail(file_keys), key,
                 IF Abs(key - Head(file_keys)) < Abs(key - best)
                 THEN Head(file_keys) ELSE best)

nearest(file_keys, key) == MinScan(Tail(file_keys), key, Head(file_keys))

---------------------------------------------------------------------------
(* Inputs *)

Keys == 0..MaxKey

KeySets == {K \in SUBSET Keys : Cardinality(K) \in KeyCounts}

ListsUpTo(S, n) == UNION {[1..m -> S] : m \in 0..n}

\* Format0/Format1 files: key -> list of numbers.
FlatFiles == UNION {[K -> FlatSamples] : K \in KeySets}
FlatData == ListsUpTo(FlatFiles, MaxFiles) \ {<<>>}

\* Format2 files: key -> list of rows, a row a list of numbers.
ColsFiles == UNION {[K -> ColsSamples] : K \in KeySets}
ColsData == ListsUpTo(ColsFiles, MaxFiles) \ {<<>>}

\* Format3 files: a list of step records; a record is a nested mapping with
\* numbers at its leaves.  A value is tagged with its Python type.
Num(n) == [kind |-> "num", val |-> n]
Map(f) == [kind |-> "map", items |-> f]

StepRecords ==
    { Map(<<"a">> :> Num(1)),
      Map(<<"a">> :> Num(3) @@ <<"b">> :> Map(<<"a">> :> Num(1))),
      Map(<<"b">> :> Map(<<"a">> :> Num(3))) }

NestedFiles == ListsUpTo(StepRecords, MaxSteps)
NestedData == ListsUpTo(NestedFiles, MaxFiles) \ {<<>>}

\* Feature strings: "a", "b,a", "a,a".
FeatureStrings == {<<"a">>, <<"b", ",", "a">>, <<"a", ",", "a">>}

\* The features argument of merge_format0/1/2: absent, empty, one feature.
FeatureArgs == {None, Some(<<>>), Some(<< <<"a">> >>)}

\* The features argument of merge_format3: None or a list of up to two features.
NestedFeatureArgs == {None} \cup {Some(l) : l \in ListsUpTo(FeatureStrings, 2)}

---------------------------------------------------------------------------
(* Shared steps *)

Locals == <<all_keys, other_key, n_stats, combined, stats, header, ret>>
Inputs == <<entry, format_id, data, features, out0>>

\* An exception leaves the function (and, uncaught, merge_formats).
Raise(e) ==
    /\ err' = e
    /\ pc' = "raised"

\* return: to the caller of the strategy, which is merge_formats in a run of it.
Return ==
    /\ ret' = "value"
    /\ pc' = IF entry = "main" THEN "open" ELSE "returned"

\* combined[key].extend(file_data[k]) for every file, k the key picked for it.
RECURSIVE extend(_, _)
extend(files, picks) ==
    IF files = <<>> THEN <<>>
    ELSE Head(files)[Head(picks)] \o extend(Tail(files), Tail(picks))

\* [np.mean(x), np.std(x)]
mean_std(x) == <<mean(x), std(x)>>

\* stats[key] = [np.mean(combined[key]), np.std(combined[key])] for every key
collect(c) == [key \in DOMAIN c |-> mean_std(c[key])]

---------------------------------------------------------------------------
(* merge_format0 *)

keys0(d) == DOMAIN d[1]

\* The check with <= (issubset) for ==.
keys_not_subset(d) == \E i \in 1..Len(d) : ~(DOMAIN d[i] \subseteq keys0(d))

\* assert set(file_data.keys()) == keys, for every file: does one fail?
keys_differ(d) == \E i \in 1..Len(d) : DOMAIN d[i] # keys0(d)

F0Check ==
    /\ pc = "f0"
    /\ IF features # None
         THEN Raise("FeatureNotAllowedError")
       ELSE IF keys_differ(data)
         THEN Raise("KeyMismatchError")
       ELSE pc' = "f0_combine" /\ err' = err
    /\ UNCHANGED <<Inputs, Locals, out>>

combine0(d) ==
    [key \in keys0(d) |-> extend(d, [i \in 1..Len(d) |-> key])]

F0Combine ==
    /\ pc = "f0_combine"
    /\ combined' = combine0(data)
    /\ pc' = "f0_stats"
    /\ UNCHANGED <<Inputs, err, all_keys, other_key, n_stats, stats, header, ret, out>>

F0Stats ==
    /\ pc = "f0_stats"
    /\ stats' = collect(combined)
    /\ header' = None
    /\ Return
    /\ UNCHANGED <<Inputs, err, all_keys, other_key, n_stats, combined, out>>

---------------------------------------------------------------------------
(* merge_format1 *)

sorted_keys(d) == [i \in 1..Len(d) |-> sorted(DOMAIN d[i])]

\* The check with >= for ==: only a file with fewer keys fails.
counts_fewer(ak) == \E i \in 1..Len(ak) : Len(ak[i]) < Len(ak[1])

\* assert len(keys) == len(all_keys[0]), for every file: does one fail?
counts_differ(ak) == \E i \in 1..Len(ak) : Len(ak[i]) # Len(ak[1])

\* other_key for every canonical key and every file.
resolve(ak) ==
    [key \in {ak[1][j] : j \in 1..Len(ak[1])} |->
        [i \in 1..Len(ak) |-> nearest(ak[i], key)]]

F1Check ==
    /\ pc = "f1"
    /\ IF features # None
         THEN Raise("FeatureNotAllowedError") /\ all_keys' = all_keys
       ELSE /\ all_keys' = sorted_keys(data)
            /\ IF counts_differ(all_keys')
                 THEN Raise("KeyCountMismatchError")
                 ELSE pc' = "f1_combine" /\ err' = err
    /\ UNCHANGED <<Inputs, other_key, n_stats, combined, stats, header, ret, out>>

F1Combine ==
    /\ pc = "f1_combine"
    /\ other_key' = resolve(all_keys)
    /\ combined' = [key \in DOMAIN other_key' |-> extend(data, other_key'[key])]
    /\ pc' = "f1_stats"
    /\ UNCHANGED <<Inputs, err, all_keys, n_stats, stats, header, ret, out>>

F1Stats ==
    /\ pc = "f1_stats"
    /\ stats' = collect(combined)
    /\ header' = None
    /\ Return
    /\ UNCHANGED <<Inputs, err, all_keys, other_key, n_stats, combined, out>>

---------------------------------------------------------------------------
(* merge_format2 *)

\* Every sample of every key of every file, in the order the check visits files.
all_samples(d) ==
    UNION {{d[i][key][j] : j \in 1..Len(d[i][key])} :
           <<i, key>> \in {<<i, key>> \in (1..Len(d)) \X Keys : key \in DOMAIN d[i]}}

F2Check ==
    /\ pc = "f2"
    /\ IF features # None
         THEN /\ Raise("FeatureNotAllowedError")
              /\ UNCHANGED <<all_keys, n_stats>>
       ELSE /\ all_keys' = sorted_keys(data)
            /\ IF counts_differ(all_keys')
                 THEN Raise("KeyCountMismatchError") /\ n_stats' = n_stats
               \* data[0][all_keys[0][0]][0]: no first key, or no first sample
               ELSE IF all_keys'[1] = <<>> \/ data[1][all_keys'[1][1]] = <<>>
                 THEN Raise("IndexError") /\ n_stats' = n_stats
               ELSE /\ n_stats' = Len(data[1][all_keys'[1][1]][1])
                    /\ IF \E samples \in all_samples(data) : Len(samples) # n_stats'
                         THEN Raise("ColumnCountMismatchError")
                         ELSE pc' = "f2_combine" /\ err' = err
    /\ UNCHANGED <<Inputs, other_key, combined, stats, header, ret, out>>

\* The rows of every file's picked key, in file order then sample order.
RECURSIVE picked_rows(_, _)
picked_rows(files, picks) ==
    IF files = <<>> THEN <<>>
    ELSE Head(files)[Head(picks)] \o picked_rows(Tail(files), Tail(picks))

\* combined[key][stat_i].append(stat) over those rows.
column(rows, stat_i) == [r \in 1..Len(rows) |-> rows[r][stat_i]]

F2Combine ==
    /\ pc = "f2_combine"
    /\ other_key' = resolve(all_keys)
    /\ combined' = [key \in DOMAIN other_key' |->
                      [stat_i \in 1..n_stats |->
                          column(picked_rows(data, other_key'[key]), stat_i)]]
    /\ pc' = "f2_stats"
    /\ UNCHANGED <<Inputs, err, all_keys, n_stats, stats, header, ret, out>>

\* The row built with append for extend: one [mean, std] pair per element.
stat_row_append(columns) == [c \in 1..Len(columns) |-> mean_std(columns[c])]

\* stats[key].extend([np.mean(...), np.std(...)]) for stat_i in range(n_stats)
RECURSIVE stat_row(_)
stat_row(columns) ==
    IF columns = <<>> THEN <<>>
    ELSE mean_std(Head(columns)) \o stat_row(Tail(columns))

F2Stats ==
    /\ pc = "f2_stats"
    /\ stats' = [key \in DOMAIN combined |-> stat_row(combined[key])]
    /\ header' = None
    /\ Return
    /\ UNCHANGED <<Inputs, err, all_keys, other_key, n_stats, combined, out>>

---------------------------------------------------------------------------
(* merge_format3 and get_nested *)

\* str.split(","): the pieces between the commas, at least one piece.
RECURSIVE split(_)
split(s) ==
    IF \A i \in 1..Len(s) : s[i] # ","
      THEN <<s>>
      ELSE LET i == CHOOSE i \in 1..Len(s) :
                        s[i] = "," /\ \A j \in 1..(i - 1) : s[j] # ","
           IN <<SubSeq(s, 1, i - 1)>> \o split(SubSeq(s, i + 1, Len(s)))

last(l) == l[Len(l)]

\* _get_nested: Some(value), or None when indexing raises (KeyError for a key the
\* mapping lacks, TypeError for indexing a number).
RECURSIVE _get_nested(_, _)
_get_nested(d, nested_feature) ==
    IF Len(nested_feature) = 0 THEN Some(d)
    ELSE IF d.kind # "map" THEN None
    ELSE IF Head(nested_feature) \notin DOMAIN d.items THEN None
    ELSE _get_nested(d.items[Head(nested_feature)], Tail(nested_feature))

get_nested(d, nested_feature) == _get_nested(d, split(nested_feature))

features_names(fs) == [j \in 1..Len(fs) |-> last(split(fs[j]))]

F3Check ==
    /\ pc = "f3"
    /\ IF features = None
         THEN Raise("TypeError")
       ELSE IF \E i \in 1..Len(data) : Len(data[i]) # Len(data[1])
         THEN Raise("StepCountMismatchError")
       ELSE pc' = "f3_collect" /\ err' = err
    /\ UNCHANGED <<Inputs, Locals, out>>

\* feat_stats of one feature: for every step, the value of every file.
feat_stats(d, feature) ==
    [step \in 0..(Len(d[1]) - 1) |->
        [i \in 1..Len(d) |-> get_nested(d[i][step + 1], feature)]]

\* all_stats[name] = feat_stats: a later feature of the same name replaces an
\* earlier one.
all_stats_of(d, fs) ==
    LET names == features_names(fs)
    IN [name \in {names[j] : j \in 1..Len(fs)} |->
          LET j == CHOOSE j \in 1..Len(fs) :
                       names[j] = name /\ \A k \in (j + 1)..Len(fs) : names[k] # name
          IN feat_stats(d, fs[j])]

F3Collect ==
    /\ pc = "f3_collect"
    /\ LET fs == features[1]
           n_steps == Len(data[1])
       IN IF \E j \in 1..Len(fs), step \in 0..(n_steps - 1), i \in 1..Len(data) :
                 feat_stats(data, fs[j])[step][i] = None
            THEN Raise("PathNotFoundError") /\ combined' = combined
            ELSE /\ combined' = all_stats_of(data, fs)
                 /\ pc' = "f3_stats" /\ err' = err
    /\ UNCHANGED <<Inputs, all_keys, other_key, n_stats, stats, header, ret, out>>

\* The numbers a step's values hold (every explored path that resolves ends at
\* a number).
numbers(values) == [i \in 1..Len(values) |-> values[i][1].val]

RECURSIVE step_row(_, _, _)
step_row(all_stats, names, i) ==
    IF names = <<>> THEN <<>>
    ELSE <<mean(numbers(all_stats[Head(names)][i])),
           std(numbers(all_stats[Head(names)][i]))>>
         \o step_row(all_stats, Tail(names), i)

F3Stats ==
    /\ pc = "f3_stats"
    /\ stats' = [i \in 0..(Len(data[1]) - 1) |->
                    step_row(combined, features_names(features[1]), i)]
    /\ header' = Some(features_names(features[1]))
    /\ Return
    /\ UNCHANGED <<Inputs, err, all_keys, other_key, n_stats, combined, out>>

---------------------------------------------------------------------------
(* merge_formats *)

NFormats == 4

entry_pc(id) == <<"f0", "f1", "f2", "f3">>[id + 1]

MainSelect ==
    /\ pc = "main"
    /\ IF format_id \notin 0..(NFormats - 1)
         THEN Raise("UnsupportedFormatError")
         ELSE pc' = "do" /\ err' = err
    /\ UNCHANGED <<Inputs, Locals, out>>

\* stats = merge_format(data): the strategies of __main__.py take the data alone;
\* its merge_format3 is `pass` and returns None.
MainDo ==
    /\ pc = "do"
    /\ IF format_id = 3
         THEN ret' = "none" /\ pc' = "open"
         ELSE ret' = ret /\ pc' = entry_pc(format_id)
    /\ UNCHANGED <<Inputs, err, all_keys, other_key, n_stats, combined, stats, header, out>>

\* open(out_path, "w"): the file exists and is empty from here on.
MainOpen ==
    /\ pc = "open"
    /\ out' = Some(<<>>)
    /\ pc' = "write"
    /\ UNCHANGED <<Inputs, err, Locals>>

\* for stat in sorted(stats): writer.writerow([stat, *stats[stat]])
MainWriteRow ==
    /\ pc = "write"
    /\ IF ret = "none"
         THEN Raise("TypeError") /\ out' = out
       ELSE LET order == sorted(DOMAIN stats)
                n == Len(out[1])
            IN IF n < Len(order)
                 THEN /\ out' = Some(Append(out[1], <<order[n + 1]>> \o stats[order[n + 1]]))
                      /\ pc' = pc /\ err' = err
                 ELSE /\ out' = out
                      /\ pc' = "done" /\ err' = err
    /\ UNCHANGED <<Inputs, Locals>>

---------------------------------------------------------------------------
(* Specifications *)

OldFile == Some(<< <<"old">> >>)

InitLocals ==
    /\ err = ""
    /\ all_keys = <<>>
    /\ other_key = <<>>
    /\ n_stats = -1
    /\ combined = <<>>
    /\ stats = <<>>
    /\ header = None
    /\ ret = "pending"

\* A call of one of the strategies of formats.py.
InitDirect ==
    /\ entry = "direct"
    /\ \/ format_id \in {0, 1} /\ data \in FlatData /\ features \in FeatureArgs
       \/ format_id = 2 /\ data \in ColsData /\ features \in FeatureArgs
       \/ format_id = 3 /\ data \in NestedData /\ features \in NestedFeatureArgs
    /\ pc = entry_pc(format_id)
    /\ out0 = None
    /\ out = out0
    /\ InitLocals

\* A run of merge_formats; the output file is absent or holds an earlier result.
InitMain ==
    /\ entry = "main"
    /\ \/ format_id \in {-1, 0, 1, 3, 4} /\ data \in FlatData
       \/ format_id = 2 /\ data \in ColsData
    /\ features = None
    /\ pc = "main"
    /\ out0 \in {None, OldFile}
    /\ out = out0
    /\ InitLocals

Next ==
    \/ F0Check \/ F0Combine \/ F0Stats
    \/ F1Check \/ F1Combine \/ F1Stats
    \/ F2Check \/ F2Combine \/ F2Stats
    \/ F3Check \/ F3Collect \/ F3Stats

Spec == InitDirect /\ [][Next]_vars

NextMain ==
    \/ MainSelect \/ MainDo \/ MainOpen \/ MainWriteRow
    \/ F0Check \/ F0Combine \/ F0Stats
    \/ F1Check \/ F1Combine \/ F1Stats
    \/ F2Check \/ F2Combine \/ F2Stats

SpecMain == InitMain /\ [][NextMain]_vars

---------------------------------------------------------------------------
(* Properties: what they are stated with *)

\* Sums and concatenations by position, from the left.
RECURSIVE SigmaTo(_, _)
SigmaTo(x, n) == IF n = 0 THEN 0 ELSE SigmaTo(x, n - 1) + x[n]
Sigma(x) == SigmaTo(x, Len(x))
SigmaSq(x) == Sigma([i \in 1..Len(x) |-> x[i] * x[i]])

RECURSIVE ConcatTo(_, _)
ConcatTo(seqs, n) == IF n = 0 THEN <<>> ELSE ConcatTo(seqs, n - 1) \o seqs[n]
Concat(seqs) == ConcatTo(seqs, Len(seqs))

SquareFree(b) == \A a \in 2..b : b % (a * a) # 0
Coprime(a, c) == \A g \in 2..c : ~(a % g = 0 /\ c % g = 0)

\* m is the population mean of x: m = sum(x) / N in lowest terms.
IsMean(m, x) ==
    IF Len(x) = 0 THEN m = <<0, 0>>
    ELSE /\ m[2] > 0
         /\ m[1] * Len(x) = m[2] * Sigma(x)
         /\ Coprime(Abs(m[1]), m[2])

\* s = a * sqrt(b) / c is the population standard deviation of x:
\* s^2 = (N * sum(x^2) - sum(x)^2) / N^2, in canonical form.
IsStd(s, x) ==
    IF Len(x) = 0 THEN s = <<0, 0, 0>>
    ELSE LET n == Len(x)
         IN /\ s[1] >= 0 /\ s[2] > 0 /\ s[3] > 0
            /\ s[1] * s[1] * s[2] * n * n
                 = s[3] * s[3] * (n * SigmaSq(x) - Sigma(x) * Sigma(x))
            /\ SquareFree(s[2])
            /\ Coprime(s[1], s[3])
            /\ (s[1] = 0 => s[2] = 1)

SameKeySets(d) == \A i \in 1..Len(d) : DOMAIN d[i] = DOMAIN d[1]
SameKeyCounts(d) ==
    \A i \in 1..Len(d) : Cardinality(DOMAIN d[i]) = Cardinality(DOMAIN d[1])

\* The samples of key k of every file, in file order.
ExactPool(d, k) == Concat([i \in 1..Len(d) |-> d[i][k]])

\* The key of K nearest to k, the smallest of the nearest.
Near(K, k) ==
    CHOOSE r \in K : \A j \in K :
        Abs(k - r) < Abs(k - j) \/ (Abs(k - r) = Abs(k - j) /\ r <= j)

\* The samples of every file's nearest key to k, in file order.
NearPool(d, k) == Concat([i \in 1..Len(d) |-> d[i][Near(DOMAIN d[i], k)]])

Started == pc # entry_pc(format_id)

---------------------------------------------------------------------------
(* C1: for Format0 files with identical key sets and no features,           *)
(* merge_format0 returns, with header None, a mapping over the shared key   *)
(* set whose value at k is [population mean, population standard deviation]*)
(* of the concatenation, in file order, of the files' samples at k.         *)
C1_Format0Stats ==
    (format_id = 0 /\ features = None /\ SameKeySets(data)) =>
        /\ pc # "raised"
        /\ pc = "returned" =>
             /\ ret = "value" /\ header = None
             /\ DOMAIN stats = DOMAIN data[1]
             /\ \A k \in DOMAIN data[1] :
                  /\ combined[k] = ExactPool(data, k)
                  /\ Len(stats[k]) = 2
                  /\ IsMean(stats[k][1], ExactPool(data, k))
                  /\ IsStd(stats[k][2], ExactPool(data, k))

\* Two files whose lists at a key differ in length, pooled to an irrational deviation.
C1_Witness ==
    /\ format_id = 0 /\ pc = "returned" /\ Len(data) = 2
    /\ \E k \in DOMAIN stats :
         /\ Len(data[1][k]) > Len(data[2][k]) /\ Len(data[2][k]) > 0
         /\ stats[k][2][2] > 1

(* C2: in a run of merge_formats with format 0, merge_format0 fails with    *)
(* KeyMismatchError exactly when some file's key set differs from the first *)
(* file's; it fails before anything is pooled or computed, and the output   *)
(* file is left as it was.                                                  *)
C2_KeyMismatch ==
    (format_id = 0 /\ pc \notin {"main", "do", "f0"}) =>
        /\ (err = "KeyMismatchError") <=> ~SameKeySets(data)
        /\ err = "KeyMismatchError" =>
             /\ pc = "raised"
             /\ combined = <<>> /\ stats = <<>> /\ ret = "pending"
             /\ out = out0

\* The failure, for a second file whose keys are a proper part of the first's,
\* with an output file already there.
C2_Witness ==
    /\ format_id = 0 /\ err = "KeyMismatchError" /\ out0 = OldFile
    /\ Len(data) = 2
    /\ DOMAIN data[2] # {} /\ DOMAIN data[2] \subseteq DOMAIN data[1]

(* C3: in merge_format1 and merge_format2 the key resolved for canonical    *)
(* key k in a file is a key of that file at the least distance from k, and  *)
(* among the keys at that distance the first in ascending order.            *)
C3_NearestKey ==
    (format_id \in {1, 2} /\ pc \in {"f1_stats", "f2_stats", "returned"}) =>
        /\ DOMAIN other_key = DOMAIN data[1]
        /\ \A k \in DOMAIN other_key : \A i \in 1..Len(data) :
             LET r == other_key[k][i]
             IN /\ r \in DOMAIN data[i]
                /\ \A j \in DOMAIN data[i] :
                     /\ Abs(k - r) <= Abs(k - j)
                     /\ Abs(k - j) = Abs(k - r) => r <= j

\* A canonical key with two keys of the second file at the same least distance.
C3_Witness ==
    /\ format_id \in {1, 2} /\ pc = "returned" /\ Len(data) = 2
    /\ \E k \in DOMAIN other_key : \E j \in DOMAIN data[2] :
         j # other_key[k][2] /\ Abs(k - j) = Abs(k - other_key[k][2])

(* C4: for Format1 files with equal key counts and no features,             *)
(* merge_format1 returns a mapping over the first file's keys whose value   *)
(* at k is [mean, std] of the concatenation, in file order, of each file's  *)
(* samples at its nearest key to k (so a key that is nearest to no canonical*)
(* key adds nothing and a key nearest to several adds to each).             *)
C4_Format1Stats ==
    (format_id = 1 /\ features = None /\ SameKeyCounts(data)) =>
        /\ pc # "raised"
        /\ pc = "returned" =>
             /\ ret = "value" /\ header = None
             /\ DOMAIN stats = DOMAIN data[1]
             /\ \A k \in DOMAIN data[1] :
                  /\ combined[k] = NearPool(data, k)
                  /\ Len(stats[k]) = 2
                  /\ IsMean(stats[k][1], NearPool(data, k))
                  /\ IsStd(stats[k][2], NearPool(data, k))

\* The second file has a key no canonical key resolves to, holding samples, and
\* a key two canonical keys resolve to, holding samples.
C4_Witness ==
    /\ format_id = 1 /\ pc = "returned" /\ Len(data) = 2
    /\ \E u \in DOMAIN data[2] :
         /\ data[2][u] # <<>>
         /\ \A k \in DOMAIN other_key : other_key[k][2] # u
    /\ \E k1, k2 \in DOMAIN other_key :
         /\ k1 # k2 /\ other_key[k1][2] = other_key[k2][2]
         /\ data[2][other_key[k1][2]] # <<>>
         /\ stats[k1] # stats[k2]

(* C5: merge_format1 and merge_format2, called without features, fail with  *)
(* KeyCountMismatchError exactly when some file's number of keys differs    *)
(* from the first file's (never when the counts agree, whatever the keys);  *)
(* the failure comes before any key is resolved or any sample pooled.       *)
C5_KeyCount ==
    format_id \in {1, 2} =>
        /\ (features = None /\ Started) =>
              ((err = "KeyCountMismatchError") <=> ~SameKeyCounts(data))
        /\ err = "KeyCountMismatchError" =>
              /\ ~SameKeyCounts(data)
              /\ pc = "raised"
              /\ other_key = <<>> /\ combined = <<>> /\ stats = <<>>
              /\ n_stats = -1 /\ ret = "pending"

\* merge_format2 failing for a second file with more keys than the first.
C5_Witness ==
    /\ format_id = 2 /\ err = "KeyCountMismatchError" /\ Len(data) = 2
    /\ Cardinality(DOMAIN data[2]) > Cardinality(DOMAIN data[1])

\* The rows of every file's nearest key to k, in file order.
NearRows(d, k) == Concat([i \in 1..Len(d) |-> d[i][Near(DOMAIN d[i], k)]])

\* The first sample of the first file's first canonical key exists.
FirstKey(d) == CHOOSE k \in DOMAIN d[1] : \A j \in DOMAIN d[1] : k <= j

FirstSampleDefined(d) ==
    /\ DOMAIN d[1] # {}
    /\ d[1][FirstKey(d)] # <<>>

FirstSampleLen(d) == Len(d[1][FirstKey(d)][1])

(* C6: for a Format2 input that reaches the column check (no features,      *)
(* equal key counts, a first sample to take n_stats from): if a sample of   *)
(* any key of any file has a length other than n_stats, merge_format2 fails *)
(* with ColumnCountMismatchError before pooling; otherwise every canonical  *)
(* key's row has length 2 * n_stats and holds, column by column, the        *)
(* [mean, std] of that column over every file's nearest-key samples.        *)
C6_Format2Rows ==
    (/\ format_id = 2 /\ features = None /\ Started
     /\ SameKeyCounts(data) /\ FirstSampleDefined(data)) =>
        LET n == FirstSampleLen(data)
        IN IF \E i \in 1..Len(data) : \E k \in DOMAIN data[i] :
                 \E j \in 1..Len(data[i][k]) : Len(data[i][k][j]) # n
             THEN /\ pc = "raised" /\ err = "ColumnCountMismatchError"
                  /\ other_key = <<>> /\ combined = <<>> /\ stats = <<>>
             ELSE /\ pc # "raised"
                  /\ n_stats = n
                  /\ pc = "returned" =>
                       /\ header = None
                       /\ DOMAIN stats = DOMAIN data[1]
                       /\ \A k \in DOMAIN data[1] :
                            /\ Len(stats[k]) = 2 * n
                            /\ \A c \in 1..n :
                                 LET rows == NearRows(data, k)
                                     col == [r \in 1..Len(rows) |-> rows[r][c]]
                                 IN /\ IsMean(stats[k][2 * c - 1], col)
                                    /\ IsStd(stats[k][2 * c], col)

\* The failure when the only samples of another length are at a key that no
\* canonical key resolves to.
C6_Witness ==
    /\ format_id = 2 /\ err = "ColumnCountMismatchError" /\ Len(data) = 2
    /\ \A i \in 1..2 : \A k \in DOMAIN data[1] :
         \A j \in 1..Len(data[i][Near(DOMAIN data[i], k)]) :
             Len(data[i][Near(DOMAIN data[i], k)][j]) = FirstSampleLen(data)

\* The part of a feature string after its last comma.
LastSegment(s) ==
    LET commas == {i \in 1..Len(s) : s[i] = ","}
        from == IF commas = {} THEN 0
                ELSE CHOOSE i \in commas : \A j \in commas : j <= i
    IN SubSeq(s, from + 1, Len(s))

AllResolve(d, fs) ==
    \A i \in 1..Len(d) : \A step \in 1..Len(d[i]) : \A j \in 1..Len(fs) :
        /\ get_nested(d[i][step], fs[j]) # None
        /\ get_nested(d[i][step], fs[j])[1].kind = "num"

SameStepCounts(d) == \A i \in 1..Len(d) : Len(d[i]) = Len(d[1])

(* C7: for Format3 files with equal step counts and feature paths that all  *)
(* resolve, merge_format3 returns the paths' last segments as header and,   *)
(* for every step i, a row of length 2 * n_features whose positions 2j and  *)
(* 2j + 1 (0-based) are the mean and std, across files, of the value at the *)
(* j-th path in step i's record -- also when two paths share a last segment.*)
C7_Format3Rows ==
    (/\ format_id = 3 /\ features # None
     /\ SameStepCounts(data) /\ AllResolve(data, features[1])) =>
        /\ pc # "raised"
        /\ pc = "returned" =>
             LET fs == features[1]
             IN /\ header = Some([j \in 1..Len(fs) |-> LastSegment(fs[j])])
                /\ DOMAIN stats = 0..(Len(data[1]) - 1)
                /\ \A i \in 0..(Len(data[1]) - 1) :
                     /\ Len(stats[i]) = 2 * Len(fs)
                     /\ \A j \in 1..Len(fs) :
                          LET vals == [f \in 1..Len(data) |->
                                          get_nested(data[f][i + 1], fs[j])[1].val]
                          IN /\ IsMean(stats[i][2 * j - 1], vals)
                             /\ IsStd(stats[i][2 * j], vals)

(* C8: merge_format0/1/2 fail with FeatureNotAllowedError exactly when      *)
(* features is a non-empty list (None and the empty list are accepted);     *)
(* merge_format3 fails with it exactly when features is None or empty.      *)
C8_FeaturesAccepted ==
    /\ (format_id \in {0, 1, 2} /\ Started) =>
          ((err = "FeatureNotAllowedError")
              <=> (features # None /\ features[1] # <<>>))
    /\ (format_id = 3 /\ Started) =>
          ((err = "FeatureNotAllowedError")
              <=> (features = None \/ features[1] = <<>>))

(* C9: in every run of merge_formats the output file is created or changed  *)
(* only after the strategy has returned a statistics mapping, and a run     *)
(* that ends in an error leaves the output file as it was.                  *)
C9_NoOutputOnError ==
    /\ out # out0 => ret = "value"
    /\ pc = "raised" => out = out0

(* C10: for integer-keyed files with identical key sets and no features,    *)
(* merge_format1 and merge_format0 both succeed and return the same mapping:*)
(* for every key the samples of that same key of every file, pooled in file *)
(* order, and their [mean, std]; and in merge_format1 and merge_format2 the *)
(* first file resolves every canonical key to itself.                       *)
C10_ExactDegenerate ==
    /\ (format_id \in {0, 1} /\ features = None /\ SameKeySets(data)) =>
          /\ pc # "raised"
          /\ pc = "returned" =>
               /\ DOMAIN combined = DOMAIN data[1]
               /\ DOMAIN stats = DOMAIN data[1]
               /\ \A k \in DOMAIN data[1] :
                    /\ combined[k] = ExactPool(data, k)
                    /\ Len(stats[k]) = 2
                    /\ IsMean(stats[k][1], ExactPool(data, k))
                    /\ IsStd(stats[k][2], ExactPool(data, k))
    /\ (format_id \in {1, 2} /\ pc \in {"f1_stats", "f2_stats", "returned"}) =>
          \A k \in DOMAIN other_key : other_key[k][1] = k

\* merge_format1 returning for two files with the same two keys, with samples
\* at both keys of both files.
C10_Witness ==
    /\ format_id = 1 /\ pc = "returned" /\ Len(data) = 2
    /\ Cardinality(DOMAIN data[1]) = 2 /\ SameKeySets(data)
    /\ \A i \in 1..2 : \A k \in DOMAIN data[1] : data[i][k] # <<>>
    /\ \E k1, k2 \in DOMAIN stats : stats[k1] # stats[k2]

============================================================================
